---- MODULE Spec2Model ----
(***************************************************************************)
(* Model of CrossPost (src/crosspost.py): the per-post pipeline of         *)
(* CrossPoster.on_update, the two platform text legs, and the supervisor   *)
(* in __main__.                                                            *)
(*                                                                         *)
(* Text is a sequence of one-character strings (Python str: len() and      *)
(* slicing count code points).  HTML content is a sequence of tokens: a    *)
(* token is either a character or one of the tags of Tags.                 *)
(***************************************************************************)
EXTENDS Integers, Sequences, FiniteSets, TLC

VARIABLES
    t_pc,      \* text pipeline position of on_update (lines 511-557)
    t_in,      \* the event and configuration the text pipeline runs on
    t_c,       \* local c of on_update: the canonical sanitized text
    t_y,       \* local y of on_update: the adapter-local text
    t_tw,      \* text handed to Twitter.post (None: not handed)
    t_bs       \* text handed to BlueSky.post (None: not handed)

VARIABLES
    accounts,  \* c["accounts"]: which destination blocks each entry carries
    mpc,       \* position of the main thread in __main__
    mi,        \* index of the main thread's current for loop
    handle,    \* CrossPoster.handle of each worker (None or "open")
    nthreads,  \* stream threads spawned so far for each worker
    sigint,    \* a SIGINT has been sent to the process and not yet taken
    th,        \* per worker and stream thread: position and locals of on_update
    files,     \* per worker: scratch files of its current post that exist
    seen,      \* per worker: events handed to on_update so far
    hist,      \* per worker: what the current (latest) dispatch has done
    sup        \* what the supervisor and the excepthook have done

VARIABLES
    a_pc,      \* position inside the adapter calls of one dispatch
    a_sess,    \* BlueSky._did and BlueSky._jwt
    a_in,      \* on_update's c, self.prefix, x["id"] and m
    a_loc,     \* locals of the running post call
    a_fu,      \* the running (latest) _find_user call: name, answers, result
    a_net,     \* requests sent: createSession calls, this dispatch's calls
    a_out      \* what the platforms were sent and what the dispatcher logged

tvars == <<t_pc, t_in, t_c, t_y, t_tw, t_bs>>
wvars == <<accounts, mpc, mi, handle, nthreads, sigint, th, files, seen, hist, sup>>
avars == <<a_pc, a_sess, a_in, a_loc, a_fu, a_net, a_out>>
vars == <<t_pc, t_in, t_c, t_y, t_tw, t_bs,
          accounts, mpc, mi, handle, nthreads, sigint, th, files, seen, hist, sup,
          a_pc, a_sess, a_in, a_loc, a_fu, a_net, a_out>>

None == "None"

-----------------------------------------------------------------------------
(* Program constants of the two text legs.                                 *)

TwitterLimit == 280
TwitterCut == 276
BlueSkyLimit == 300
BlueSkyCut == 290

NL == "\n"
Ellipsis == <<" ", ".", ".", ".">>
TwitterMention == <<"@", "t", "w", "i", "t", "t", "e", "r", ".", "c", "o", "m">>

-----------------------------------------------------------------------------
(* Python string primitives.                                               *)

\* s[0:n]
Slice(s, n) == SubSeq(s, 1, IF n < Len(s) THEN n ELSE Len(s))

\* s.startswith(p) at 1-based position i
MatchAt(s, i, p) ==
    /\ i + Len(p) - 1 <= Len(s)
    /\ \A j \in 1..Len(p) : s[i + j - 1] = p[j]

\* s.find(p, i): the first position >= i where p occurs, 0 when there is none
Find(s, i, p) ==
    LET hits == {j \in i..(Len(s) - Len(p) + 1) : MatchAt(s, j, p)}
    IN  IF hits = {} THEN 0 ELSE CHOOSE j \in hits : \A k \in hits : j <= k

\* s.replace(old, new) for non-empty old: leftmost, non-overlapping
RECURSIVE ReplaceFrom(_, _, _, _)
ReplaceFrom(s, i, old, new) ==
    LET j == Find(s, i, old)
    IN  IF j = 0 THEN SubSeq(s, i, Len(s))
        ELSE SubSeq(s, i, j - 1) \o new \o ReplaceFrom(s, j + Len(old), old, new)

StrReplace(s, old, new) == ReplaceFrom(s, 1, old, new)

EndsWith(s, p) ==
    /\ Len(s) >= Len(p)
    /\ SubSeq(s, Len(s) - Len(p) + 1, Len(s)) = p

-----------------------------------------------------------------------------
(* Content sanitizer, on_update lines 511-525.                             *)

Tags == {"<p>", "</p>", "<br />", "<br/>", "<br>"}

\* BeautifulSoup(..., "html.parser").text : the text nodes, markup dropped
IsText(tok) == tok \notin Tags

SoupText(h) == SelectSeq(h, IsText)

Sanitize(content) ==
    SoupText(
        StrReplace(
            StrReplace(
                StrReplace(
                    StrReplace(content, <<"</p>", "<p>">>, <<NL, NL, "</p>", "<p>">>),
                    <<"<br />">>, <<NL>>),
                <<"<br/>">>, <<NL>>),
            <<"<br>">>, <<NL>>))

\* the replace mapping, a sequence of <<needle, value>> items in dict order;
\* a non-string or empty side is None or <<>> here and the item is skipped
RECURSIVE ApplyItems(_, _)
ApplyItems(c, items) ==
    IF items = <<>> THEN c
    ELSE LET k == Head(items)[1]
             v == Head(items)[2]
         IN  IF k = None \/ k = <<>> \/ v = None \/ v = <<>>
             THEN ApplyItems(c, Tail(items))
             ELSE ApplyItems(StrReplace(c, k, v), Tail(items))

\* if isinstance(self.replace, dict): ...
ApplyReplace(c, replace) == IF replace = None THEN c ELSE ApplyItems(c, replace)

-----------------------------------------------------------------------------
(* The two platform legs of on_update, lines 526-534 and 542-550.          *)

\* isinstance(self.prefix, str) and len(self.prefix) > 0
HasPrefix(prefix) == prefix # None /\ Len(prefix) > 0

\* v = self.prefix + "/" + str(x["id"])
LinkOf(prefix, id) == prefix \o <<"/">> \o id

\* y = c.replace("@twitter.com", "")
LocalCopy(c) == StrReplace(c, TwitterMention, <<>>)

\* the cut taken at the limit, leaving no room for the marker
TwitterTruncateNoRoom(y) ==
    IF Len(y) > TwitterLimit THEN Slice(y, TwitterLimit) \o Ellipsis ELSE y

\* the cut taken already at the limit itself
TwitterTruncateAtLimit(y) ==
    IF Len(y) >= TwitterLimit THEN Slice(y, TwitterCut) \o Ellipsis ELSE y

TwitterTruncate(y) ==
    IF Len(y) > TwitterLimit THEN Slice(y, TwitterCut) \o Ellipsis ELSE y

\* the separating newline left out of the count
TwitterFitsNoNewline(y, v) == Len(y) + Len(v) <= TwitterLimit

TwitterFits(y, v) == Len(y) + Len(v) + 1 <= TwitterLimit

TwitterSuffix(y, prefix, id) ==
    IF HasPrefix(prefix)
    THEN IF TwitterFits(y, LinkOf(prefix, id))
         THEN y \o <<NL>> \o LinkOf(prefix, id)
         ELSE y
    ELSE y

BlueSkyTruncate(y) ==
    IF Len(y) > BlueSkyLimit THEN Slice(y, BlueSkyCut) \o Ellipsis ELSE y

BlueSkyFits(y, v) == Len(y) + Len(v) + 1 <= BlueSkyLimit

BlueSkySuffix(y, prefix, id) ==
    IF HasPrefix(prefix)
    THEN IF BlueSkyFits(y, LinkOf(prefix, id))
         THEN y \o <<NL>> \o LinkOf(prefix, id)
         ELSE y
    ELSE y

-----------------------------------------------------------------------------
(* Inputs of the text pipeline.                                            *)

Slack == 14

TextLens == (TwitterLimit - Slack)..(BlueSkyLimit + Slack)

Fill(n) == [i \in 1..n |-> "a"]

\* sanitized texts of length n: plain, ending in the marker itself,
\* carrying the "@twitter.com" artifact, carrying a replace needle
TextForms == {"plain", "dots", "mention", "needle"}

Needle == <<":", ")">>

TextOf(form, n) ==
    CASE form = "plain"   -> Fill(n)
      [] form = "dots"    -> Fill(n - 4) \o Ellipsis
      [] form = "mention" -> Fill(n - 12) \o TwitterMention
      [] form = "needle"  -> Needle \o Fill(n - 2)

\* the HTML a Mastodon status carries for such a text
HtmlOf(text) == <<"<p>">> \o text \o <<"</p>">>

Prefixes == {None, <<>>, <<"a">>, <<"a", "b", "c">>,
             <<"h", "t", "t", "p", ":", "/", "/", "x">>}

PostIds == {<<"1">>, <<"1", "2">>}

ReplaceMaps == {None, << <<Needle, <<"*">> >>, << <<>>, <<"b">> >> >>}

\* local m of on_update: None, or the list of paths _get_media returned
NoList == [list |-> FALSE, paths |-> <<>>]

NotFound == [found |-> FALSE, did |-> None]

NoSession == [did |-> None, jwt |-> None]
NoInput == [c |-> <<>>, prefix |-> None, id |-> <<>>, m |-> NoList]
NoLocals == [text |-> <<>>, k |-> 0, ids |-> <<>>, e |-> <<>>, f |-> <<>>,
             ms |-> <<>>, us |-> <<>>, ts |-> <<>>]
NoAnswer == [status |-> 0]
NoFindUser == [k |-> 0, name |-> <<>>, exact |-> NoAnswer, searched |-> FALSE,
               search |-> NoAnswer, result |-> NotFound, done |-> FALSE]
NoRecord == [sent |-> FALSE]
NoOutcome == [tw |-> "no", tweet |-> NoRecord, twUploadFailed |-> FALSE,
              bs |-> "no", rec |-> NoRecord, blobFailed |-> FALSE,
              answer |-> NoAnswer, cid |-> None, log |-> "no"]

\* the adapter variables while no adapter call is exercised
AIdle ==
    /\ a_pc = "none"
    /\ a_sess = NoSession
    /\ a_in = NoInput
    /\ a_loc = NoLocals
    /\ a_fu = NoFindUser
    /\ a_net = [sessions |-> 0, answered |-> NoSession, calls |-> <<>>]
    /\ a_out = NoOutcome

\* the worker variables while only the text pipeline is exercised
WIdle ==
    /\ accounts = <<>>
    /\ mpc = "none"
    /\ mi = 0
    /\ handle = <<>>
    /\ nthreads = <<>>
    /\ sigint = FALSE
    /\ th = <<>>
    /\ files = <<>>
    /\ seen = <<>>
    /\ hist = <<>>
    /\ sup = <<>>

\* which of self.twitter / self.bluesky is not None
Platforms == {[twitter |-> TRUE, bluesky |-> TRUE],
              [twitter |-> TRUE, bluesky |-> FALSE],
              [twitter |-> FALSE, bluesky |-> TRUE]}

TInit ==
    /\ t_pc = "content"
    /\ t_in \in [content : {HtmlOf(TextOf(f, n)) : f \in TextForms, n \in TextLens},
                 prefix : Prefixes,
                 id : PostIds,
                 replace : ReplaceMaps,
                 on : Platforms]
    /\ t_c = None
    /\ t_y = None
    /\ t_tw = None
    /\ t_bs = None
    /\ WIdle
    /\ AIdle

\* lines 511-525
SanitizeStep ==
    /\ t_pc = "content"
    /\ t_c' = ApplyReplace(Sanitize(t_in.content), t_in.replace)
    /\ t_pc' = "twitter"
    /\ UNCHANGED <<t_in, t_y, t_tw, t_bs>>
    /\ UNCHANGED <<wvars, avars>>

\* lines 526-541
TwitterLeg ==
    /\ t_pc = "twitter"
    /\ IF t_in.on.twitter
       THEN /\ t_y' = TwitterSuffix(TwitterTruncate(LocalCopy(t_c)), t_in.prefix, t_in.id)
            /\ t_tw' = t_y'
       ELSE UNCHANGED <<t_y, t_tw>>
    /\ t_pc' = "bluesky"
    /\ UNCHANGED <<t_in, t_c, t_bs>>
    /\ UNCHANGED <<wvars, avars>>

\* lines 542-556
BlueSkyLeg ==
    /\ t_pc = "bluesky"
    /\ IF t_in.on.bluesky
       THEN /\ t_y' = BlueSkySuffix(BlueSkyTruncate(LocalCopy(t_c)), t_in.prefix, t_in.id)
            /\ t_bs' = t_y'
       ELSE UNCHANGED <<t_y, t_bs>>
    /\ t_pc' = "done"
    /\ UNCHANGED <<t_in, t_c, t_tw>>
    /\ UNCHANGED <<wvars, avars>>

TNext == SanitizeStep \/ TwitterLeg \/ BlueSkyLeg

TextSpec == TInit /\ [][TNext]_vars

-----------------------------------------------------------------------------
(* The supervisor (__main__) and the workers (CrossPoster).                *)

NumAccounts == 2
MaxThreads == 2
MaxMedia == 3
MaxEvents == 2
MaxRemoveFail == 1
MaxBusy == 1

Workers == 1..NumAccounts
Threads == 1..MaxThreads

\* an account entry: does it carry a "twitter" block, a "bluesky" block
Entries == [twitter : BOOLEAN, bluesky : BOOLEAN]

\* a status event as CrossPoster.on_update reads it; "absent" is a missing key
Base == [author |-> "uid", visibility |-> "public", reblogged |-> "absent",
         reblog |-> "absent", in_reply_to_id |-> "null",
         in_reply_to_account_id |-> "null", content |-> "text", media |-> 0]

Events ==
    {[Base EXCEPT !.media = n] : n \in 0..MaxMedia}
    \cup {[Base EXCEPT !.media = 1, !.reblogged = r, !.reblog = b] :
             r \in {"absent", "false"}, b \in {"absent", "null"}}
    \cup {[Base EXCEPT !.media = 1, !.author = "other"],
          [Base EXCEPT !.media = 1, !.visibility = "unlisted"],
          [Base EXCEPT !.media = 1, !.visibility = "private"],
          [Base EXCEPT !.media = 1, !.reblogged = "true"],
          [Base EXCEPT !.media = 1, !.reblog = "status"],
          [Base EXCEPT !.media = 1, !.in_reply_to_id = "id"],
          [Base EXCEPT !.media = 1, !.in_reply_to_account_id = "id"],
          [Base EXCEPT !.media = 1, !.content = "absent"],
          [Base EXCEPT !.media = 1, !.content = "empty"]}

\* the filter without the test of in_reply_to_account_id
FilteredNoReplyAccount(cfg, x) ==
    \/ ~cfg.twitter /\ ~cfg.bluesky
    \/ x.author # "uid"
    \/ x.visibility # "public"
    \/ (x.reblogged # "absent" /\ x.reblogged = "true")
    \/ x.in_reply_to_id # "null"
    \/ (x.reblog # "absent" /\ x.reblog # "null")
    \/ x.content = "absent"
    \/ x.content = "empty"

\* on_update lines 491-502: TRUE when the handler returns before line 503
Filtered(cfg, x) ==
    \/ ~cfg.twitter /\ ~cfg.bluesky
    \/ x.author # "uid"
    \/ x.visibility # "public"
    \/ (x.reblogged # "absent" /\ x.reblogged = "true")
    \/ x.in_reply_to_id # "null"
    \/ x.in_reply_to_account_id # "null"
    \/ (x.reblog # "absent" /\ x.reblog # "null")
    \/ x.content = "absent"
    \/ x.content = "empty"

\* _get_media lines 108-109: None for a missing or empty attachment list
NoMedia(n) == n = 0

\* the failed download swallowed, the post going on without media
OnMediaErrorContinue(k) == "continue"

\* the failed download not caught by the except clause
OnMediaErrorRaise(k) == "raise"

\* on_update lines 506-510: what the handler does with a failed download
OnMediaError(k) == "return"

\* the platform's exception not caught
OnPostErrorRaise(platform) == "raise"

\* on_update lines 537-538 and 553-554: what a failed platform post does
OnPostError(platform) == "continue"

\* the emptiness test off by one
NothingToCleanSingle(m) == ~m.list \/ Len(m.paths) <= 1

\* on_update line 558: nothing to delete
NothingToClean(m) == ~m.list \/ Len(m.paths) = 0

\* a second stream reader spawned for the same listener
StreamUserTwice(n) == n + 2

\* CrossPoster.start lines 486-488: run_async=True spawns one stream thread
StreamUser(n) == n + 1

\* an entry without destination taken as loadable
LoadOkAlways(entry) == TRUE

\* _parse_and_load lines 140-167: an entry needs a destination block
LoadOk(entry) == entry.twitter \/ entry.bluesky

Terminal == {"done", "exit1", "interrupted", "crashed"}

Alive == mpc \notin Terminal

IdleThread == [pc |-> "idle", n |-> 0, m |-> NoList]

FreshHist == [eligible |-> TRUE, n |-> 0, dl |-> 0, dlFailed |-> FALSE, tw |-> "no",
              bs |-> "no", rm |-> <<>>, rmFail |-> {}, returned |-> TRUE, prevFail |-> FALSE]

Init ==
    /\ accounts \in [Workers -> Entries]
    /\ mpc = "load"
    /\ mi = 1
    /\ handle = [w \in Workers |-> None]
    /\ nthreads = [w \in Workers |-> 0]
    /\ sigint = FALSE
    /\ th = [w \in Workers |-> [t \in Threads |-> IdleThread]]
    /\ files = [w \in Workers |-> {}]
    /\ seen = [w \in Workers |-> 0]
    /\ hist = [w \in Workers |-> FreshHist]
    /\ sup = [started |-> {}, closed |-> {}]
    /\ t_pc = "none"
    /\ t_in = None
    /\ t_c = None
    /\ t_y = None
    /\ t_tw = None
    /\ t_bs = None
    /\ AIdle

RECURSIVE SumTo(_, _)
SumTo(f, n) == IF n = 0 THEN 0 ELSE f[n] + SumTo(f, n - 1)

TotalSeen == SumTo(seen, NumAccounts)

\* the accounts that have posted so far in the run
Busy == {w \in Workers : seen[w] > 0}

\* the claim's own notion of an event that is to be relayed (spec 4.1)
Eligible(x) ==
    /\ x.author = "uid"
    /\ x.visibility = "public"
    /\ x.reblogged \in {"absent", "false"}
    /\ x.reblog \in {"absent", "null"}
    /\ x.in_reply_to_id = "null" /\ x.in_reply_to_account_id = "null"
    /\ x.content = "text"

Failed(h) == h.dlFailed \/ h.tw = "fail" \/ h.bs = "fail"

\* the stage that follows sanitizing, lines 526 and 542
FirstLeg(cfg) == IF cfg.twitter THEN "twitter" ELSE "bluesky"

\* an exception leaves the thread: threading.excepthook, lines 120-122,
\* sends the process a SIGINT
Unhandled(w, t, by) ==
    /\ th' = [th EXCEPT ![w][t] = [IdleThread EXCEPT !.pc = by]]
    /\ sigint' = TRUE

\* on_update lines 490-505: the stream thread hands the next event over
OnUpdate(w, t, x) ==
    /\ Alive /\ handle[w] # None /\ t <= nthreads[w]
    /\ th[w][t].pc = "idle"
    /\ TotalSeen < MaxEvents
    /\ w \in Busy \/ Cardinality(Busy) < MaxBusy
    /\ seen' = [seen EXCEPT ![w] = @ + 1]
    /\ files' = [files EXCEPT ![w] = {}]
    /\ LET h == [FreshHist EXCEPT !.eligible = Eligible(x), !.n = x.media,
                                  !.prevFail = hist[w].prevFail \/ Failed(hist[w])]
       IN  IF Filtered(accounts[w], x)
           THEN /\ hist' = [hist EXCEPT ![w] = h]
                /\ UNCHANGED th
           ELSE /\ hist' = [hist EXCEPT ![w] = [h EXCEPT !.returned = FALSE]]
                /\ th' = [th EXCEPT ![w][t] =
                            IF NoMedia(x.media)
                            THEN [IdleThread EXCEPT !.pc = FirstLeg(accounts[w])]
                            ELSE [IdleThread EXCEPT !.pc = "media", !.n = x.media]]
    /\ UNCHANGED <<accounts, mpc, mi, handle, nthreads, sigint, sup, tvars, avars>>

\* the list 1..n of scratch files, in download order
Paths(n) == [i \in 1..n |-> i]

\* _get_media lines 110-117: attachment k is the one whose download fails
\* (its scratch file exists by then), k = 0 when none does
GetMedia(w, t, k) ==
    /\ Alive /\ th[w][t].pc = "media"
    /\ k <= th[w][t].n
    /\ LET me == th[w][t]
       IN  IF k = 0
           THEN /\ files' = [files EXCEPT ![w] = 1..me.n]
                /\ hist' = [hist EXCEPT ![w].dl = me.n]
                /\ th' = [th EXCEPT ![w][t] =
                            [me EXCEPT !.pc = FirstLeg(accounts[w]),
                                        !.m = [list |-> TRUE, paths |-> Paths(me.n)]]]
                /\ UNCHANGED sigint
           ELSE /\ files' = [files EXCEPT ![w] = 1..k]
                /\ CASE OnMediaError(k) = "return" ->
                          /\ th' = [th EXCEPT ![w][t] = IdleThread]
                          /\ hist' = [hist EXCEPT ![w].dl = k, ![w].dlFailed = TRUE,
                                                  ![w].returned = TRUE]
                          /\ UNCHANGED sigint
                     [] OnMediaError(k) = "continue" ->
                          /\ th' = [th EXCEPT ![w][t] =
                                      [me EXCEPT !.pc = FirstLeg(accounts[w])]]
                          /\ hist' = [hist EXCEPT ![w].dl = k, ![w].dlFailed = TRUE]
                          /\ UNCHANGED sigint
                     [] OnMediaError(k) = "raise" ->
                          /\ Unhandled(w, t, "dead_update")
                          /\ hist' = [hist EXCEPT ![w].dl = k, ![w].dlFailed = TRUE]
    /\ UNCHANGED <<accounts, mpc, mi, handle, nthreads, seen, sup, tvars, avars>>

\* the stage after the last platform leg, lines 557-559
AfterLegs(me) == IF NothingToClean(me.m) THEN IdleThread
                 ELSE [me EXCEPT !.pc = "cleanup"]

\* on_update lines 535-540: self.twitter.post(y, m)
TwitterPost(w, t, ok) ==
    /\ Alive /\ th[w][t].pc = "twitter"
    /\ LET me == th[w][t]
           go == ok \/ OnPostError("twitter") = "continue"
           nxt == IF accounts[w].bluesky THEN [me EXCEPT !.pc = "bluesky"]
                  ELSE AfterLegs(me)
       IN  IF go
           THEN /\ th' = [th EXCEPT ![w][t] = nxt]
                /\ hist' = [hist EXCEPT ![w].tw = IF ok THEN "ok" ELSE "fail",
                                        ![w].returned = (nxt.pc = "idle")]
                /\ UNCHANGED sigint
           ELSE /\ Unhandled(w, t, "dead_update")
                /\ hist' = [hist EXCEPT ![w].tw = "fail"]
    /\ UNCHANGED <<accounts, mpc, mi, handle, nthreads, files, seen, sup, tvars, avars>>

\* on_update lines 551-556: self.bluesky.post(y, m)
BlueSkyPost(w, t, ok) ==
    /\ Alive /\ th[w][t].pc = "bluesky"
    /\ LET me == th[w][t]
           go == ok \/ OnPostError("bluesky") = "continue"
           nxt == AfterLegs(me)
       IN  IF go
           THEN /\ th' = [th EXCEPT ![w][t] = nxt]
                /\ hist' = [hist EXCEPT ![w].bs = IF ok THEN "ok" ELSE "fail",
                                        ![w].returned = (nxt.pc = "idle")]
                /\ UNCHANGED sigint
           ELSE /\ Unhandled(w, t, "dead_update")
                /\ hist' = [hist EXCEPT ![w].bs = "fail"]
    /\ UNCHANGED <<accounts, mpc, mi, handle, nthreads, files, seen, sup, tvars, avars>>

\* the loop left at the first removal that raises
AttemptedUntilFailure(m, bad) ==
    LET hit == {i \in 1..Len(m) : m[i] \in bad}
    IN  IF hit = {} THEN m
        ELSE SubSeq(m, 1, CHOOSE i \in hit : \A j \in hit : i <= j)

\* the files of m whose removal the loop of lines 560-567 attempts, in
\* order, when the removals of the files in bad raise OSError
Attempted(m, bad) == m

\* on_update lines 560-568: remove(i) for each file of m; a failure is printed
Cleanup(w, t, bad) ==
    /\ Alive /\ th[w][t].pc = "cleanup"
    /\ bad \subseteq {th[w][t].m.paths[i] : i \in 1..Len(th[w][t].m.paths)}
    /\ Cardinality(bad) <= MaxRemoveFail
    /\ LET tried == Attempted(th[w][t].m.paths, bad)
       IN  /\ files' = [files EXCEPT ![w] =
                          @ \ ({tried[i] : i \in 1..Len(tried)} \ bad)]
           /\ hist' = [hist EXCEPT ![w].rm = @ \o tried, ![w].rmFail = bad,
                                   ![w].returned = TRUE]
    /\ th' = [th EXCEPT ![w][t] = IdleThread]
    /\ UNCHANGED <<accounts, mpc, mi, handle, nthreads, sigint, seen, sup, tvars, avars>>

\* the stream reader itself fails (reconnect_async=False): the error leaves
\* the thread
StreamFault(w, t) ==
    /\ Alive /\ handle[w] # None /\ t <= nthreads[w]
    /\ th[w][t].pc = "idle"
    /\ Unhandled(w, t, "dead_stream")
    /\ UNCHANGED <<accounts, mpc, mi, handle, nthreads, files, seen, hist, sup, tvars, avars>>

\* the operator interrupts the process (Ctrl-C)
UserInterrupt ==
    /\ Alive /\ ~sigint
    /\ sigint' = TRUE
    /\ UNCHANGED <<accounts, mpc, mi, handle, nthreads, th, files, seen, hist, sup, tvars, avars>>

\* __main__ lines 592-597, one entry; ok: the constructors of lines 152,
\* 165, 168 and 176 do not raise
Load(ok) ==
    /\ mpc = "load" /\ ~sigint
    /\ IF LoadOk(accounts[mi]) /\ ok
       THEN IF mi = NumAccounts
            THEN mpc' = "start" /\ mi' = 1
            ELSE mpc' = mpc /\ mi' = mi + 1
       ELSE mpc' = "exit1" /\ mi' = mi
    /\ UNCHANGED <<accounts, handle, nthreads, sigint, th, files, seen, hist, sup, tvars, avars>>

\* __main__ lines 600-605, one worker; line 604 reads i.user, which no
\* CrossPoster has, so the handler itself raises
Start(ok) ==
    /\ mpc = "start" /\ ~sigint
    /\ IF ok
       THEN /\ handle' = [handle EXCEPT ![mi] = "open"]
            /\ nthreads' = [nthreads EXCEPT ![mi] = StreamUser(@)]
            /\ sup' = [sup EXCEPT !.started = @ \cup {mi}]
            /\ IF mi = NumAccounts
               THEN mpc' = "started" /\ mi' = mi
               ELSE mpc' = mpc /\ mi' = mi + 1
       ELSE /\ mpc' = "crashed"
            /\ UNCHANGED <<handle, nthreads, sup, mi>>
    /\ UNCHANGED <<accounts, sigint, th, files, seen, hist, tvars, avars>>

\* __main__ lines 606-607: the print, then the main thread enters sigwait
EnterSigwait ==
    /\ mpc = "started" /\ ~sigint
    /\ mpc' = "sigwait"
    /\ UNCHANGED <<accounts, mi, handle, nthreads, sigint, th, files, seen, hist, sup, tvars, avars>>

\* __main__ lines 607-608: sigwait returns the SIGINT
SigwaitReturns ==
    /\ mpc = "sigwait" /\ sigint
    /\ sigint' = FALSE
    /\ mpc' = "close" /\ mi' = 1
    /\ UNCHANGED <<accounts, handle, nthreads, th, files, seen, hist, sup, tvars, avars>>

\* the worker list position after entry i of the closing loop, line 609
CloseNext(i) == i + 1

\* __main__ lines 609-613 with CrossPoster.close lines 479-483, one worker;
\* line 613 reads i.user, so a close() that raises ends the main thread
Close(ok) ==
    /\ mpc = "close" /\ ~sigint
    /\ sup' = [sup EXCEPT !.closed = @ \cup {mi}]
    /\ IF handle[mi] = None \/ ok
       THEN /\ handle' = [handle EXCEPT ![mi] = None]
            /\ IF CloseNext(mi) > NumAccounts
               THEN mpc' = "done" /\ mi' = mi
               ELSE mpc' = mpc /\ mi' = CloseNext(mi)
       ELSE /\ mpc' = "crashed"
            /\ UNCHANGED <<handle, mi>>
    /\ UNCHANGED <<accounts, nthreads, sigint, th, files, seen, hist, tvars, avars>>

\* a SIGINT that reaches the main thread outside sigwait: Python's default
\* handler raises KeyboardInterrupt, which no "except Exception" catches
MainInterrupted ==
    /\ mpc \in {"load", "start", "started", "close"} /\ sigint
    /\ mpc' = "interrupted"
    /\ sigint' = FALSE
    /\ UNCHANGED <<accounts, mi, handle, nthreads, th, files, seen, hist, sup, tvars, avars>>

Next ==
    \/ \E ok \in BOOLEAN : Load(ok)
    \/ \E ok \in BOOLEAN : Start(ok)
    \/ EnterSigwait
    \/ SigwaitReturns
    \/ \E ok \in BOOLEAN : Close(ok)
    \/ MainInterrupted
    \/ UserInterrupt
    \/ \E w \in Workers, t \in Threads :
          \/ \E x \in Events : OnUpdate(w, t, x)
          \/ \E k \in 0..MaxMedia : GetMedia(w, t, k)
          \/ \E ok \in BOOLEAN : TwitterPost(w, t, ok)
          \/ \E ok \in BOOLEAN : BlueSkyPost(w, t, ok)
          \/ \E bad \in SUBSET (1..MaxMedia) : Cleanup(w, t, bad)
          \/ StreamFault(w, t)

Spec == Init /\ [][Next]_vars

\* The supervisor on its own: the streams deliver no event, so the stream
\* threads only idle or die.
SNext ==
    \/ \E ok \in BOOLEAN : Load(ok)
    \/ \E ok \in BOOLEAN : Start(ok)
    \/ EnterSigwait
    \/ SigwaitReturns
    \/ \E ok \in BOOLEAN : Close(ok)
    \/ MainInterrupted
    \/ UserInterrupt
    \/ \E w \in Workers, t \in Threads : StreamFault(w, t)

SupervisorSpec == Init /\ [][SNext]_vars

\* The dispatcher on its own: every entry has loaded, the first worker's
\* stream has just been started (line 602) and the main thread stands in the
\* start loop; only the stream threads move.
DInit ==
    /\ accounts \in [Workers -> {e \in Entries : LoadOk(e)}]
    /\ mpc = "start"
    /\ mi = 2
    /\ handle = [w \in Workers |-> IF w = 1 THEN "open" ELSE None]
    /\ nthreads = [w \in Workers |-> IF w = 1 THEN StreamUser(0) ELSE 0]
    /\ sigint = FALSE
    /\ th = [w \in Workers |-> [t \in Threads |-> IdleThread]]
    /\ files = [w \in Workers |-> {}]
    /\ seen = [w \in Workers |-> 0]
    /\ hist = [w \in Workers |-> FreshHist]
    /\ sup = [started |-> {1}, closed |-> {}]
    /\ t_pc = "none"
    /\ t_in = None
    /\ t_c = None
    /\ t_y = None
    /\ t_tw = None
    /\ t_bs = None
    /\ AIdle

DNext ==
    \E w \in Workers, t \in Threads :
        \/ \E x \in Events : OnUpdate(w, t, x)
        \/ \E k \in 0..MaxMedia : GetMedia(w, t, k)
        \/ \E ok \in BOOLEAN : TwitterPost(w, t, ok)
        \/ \E ok \in BOOLEAN : BlueSkyPost(w, t, ok)
        \/ \E bad \in SUBSET (1..MaxMedia) : Cleanup(w, t, bad)

DispatchSpec == DInit /\ [][DNext]_vars

-----------------------------------------------------------------------------
(* Claims about the text legs, checked under TextSpec.                     *)

\* the link prefix/postID of the current input
TLink == LinkOf(t_in.prefix, t_in.id)

\* a link prefix is configured: a non-empty string
Configured(prefix) == prefix # None /\ prefix # <<>>

\* C9 as stated: whenever the adapter-local text is longer than the platform
\* limit, the text passed to the platform's post call is no longer than the
\* limit and ends with the marker " ...", for every prefix and post id.
C9_AlwaysEllipsis ==
    t_pc = "done" =>
        /\ (t_tw # None /\ Len(LocalCopy(t_c)) > TwitterLimit)
              => (Len(t_tw) <= TwitterLimit /\ EndsWith(t_tw, Ellipsis))
        /\ (t_bs # None /\ Len(LocalCopy(t_c)) > BlueSkyLimit)
              => (Len(t_bs) <= BlueSkyLimit /\ EndsWith(t_bs, Ellipsis))

\* C9 amended: an over-long text is passed on no longer than the limit; the
\* Twitter text is its first 276 characters and the marker; the BlueSky text
\* is its first 290 characters and the marker, and ends with the marker unless
\* a link prefix is configured and prefix/postID has at most 5 characters, in
\* which case the link suffix follows the marker.
C9_TruncatedWithinLimit ==
    t_pc = "done" =>
        /\ (t_tw # None /\ Len(LocalCopy(t_c)) > TwitterLimit)
              => /\ Len(t_tw) <= TwitterLimit
                 /\ t_tw = SubSeq(LocalCopy(t_c), 1, 276) \o Ellipsis
        /\ (t_bs # None /\ Len(LocalCopy(t_c)) > BlueSkyLimit)
              => /\ Len(t_bs) <= BlueSkyLimit
                 /\ IF Configured(t_in.prefix) /\ Len(TLink) <= 5
                    THEN t_bs = SubSeq(LocalCopy(t_c), 1, 290) \o Ellipsis
                                    \o <<NL>> \o TLink
                    ELSE /\ t_bs = SubSeq(LocalCopy(t_c), 1, 290) \o Ellipsis
                         /\ EndsWith(t_bs, Ellipsis)

\* an input over both limits has been through both legs, the BlueSky leg with
\* a short link
C9_Witness ==
    /\ t_pc = "done"
    /\ Len(LocalCopy(t_c)) > BlueSkyLimit
    /\ t_tw # None /\ EndsWith(t_tw, Ellipsis) /\ Len(t_tw) = 280
    /\ t_bs # None /\ ~EndsWith(t_bs, Ellipsis) /\ Len(t_bs) = 300

\* C10: on both legs the link suffix "\n" + prefix + "/" + postID is appended
\* if and only if a link prefix is configured and len(text) + 1 +
\* len(prefix/postID) is at most the platform limit, text being the adapter
\* text after truncation; otherwise the text is passed on without suffix.
C10_SuffixIffFits ==
    t_pc = "done" =>
        /\ t_tw # None =>
              LET y == TwitterTruncate(LocalCopy(t_c))
              IN  IF Configured(t_in.prefix) /\ Len(y) + 1 + Len(TLink) <= 280
                  THEN t_tw = y \o <<NL>> \o TLink
                  ELSE t_tw = y
        /\ t_bs # None =>
              LET y == BlueSkyTruncate(LocalCopy(t_c))
              IN  IF Configured(t_in.prefix) /\ Len(y) + 1 + Len(TLink) <= 300
                  THEN t_bs = y \o <<NL>> \o TLink
                  ELSE t_bs = y

\* one input whose link did not fit on Twitter and did fit on BlueSky
C10_Witness ==
    /\ t_pc = "done"
    /\ Configured(t_in.prefix)
    /\ t_tw # None /\ t_tw = TwitterTruncate(LocalCopy(t_c))
    /\ t_bs # None /\ t_bs = BlueSkyTruncate(LocalCopy(t_c)) \o <<NL>> \o TLink
    /\ Len(t_bs) = 300

\* C11 as stated: for a sanitized text no longer than the platform's limit
\* the adapter text before any link suffix equals the sanitized text after
\* the replacement mapping, unchanged, with no marker appended.
C11_ShortTextUnchanged ==
    t_pc = "done" =>
        /\ (t_tw # None /\ Len(t_c) <= 280)
              => (t_tw = t_c \/ t_tw = t_c \o <<NL>> \o TLink)
        /\ (t_bs # None /\ Len(t_c) <= 300)
              => (t_bs = t_c \/ t_bs = t_c \o <<NL>> \o TLink)

\* the sanitized text with every "@twitter.com" taken out
WithoutArtifact(c) == StrReplace(c, TwitterMention, <<>>)

\* C11 amended: for a sanitized text no longer than the platform's limit the
\* adapter text before any link suffix equals the sanitized text after the
\* replacement mapping with every occurrence of "@twitter.com" removed and
\* nothing else changed; no marker is appended.
C11_ShortTextOnlyArtifactRemoved ==
    t_pc = "done" =>
        /\ (t_tw # None /\ Len(t_c) <= 280)
              => (t_tw = WithoutArtifact(t_c)
                    \/ t_tw = WithoutArtifact(t_c) \o <<NL>> \o TLink)
        /\ (t_bs # None /\ Len(t_c) <= 300)
              => (t_bs = WithoutArtifact(t_c)
                    \/ t_bs = WithoutArtifact(t_c) \o <<NL>> \o TLink)

\* a text of exactly 280 characters that carried the artifact went through
\* both legs
C11_Witness ==
    /\ t_pc = "done"
    /\ Len(t_c) = 280 /\ EndsWith(t_c, TwitterMention)
    /\ t_tw # None /\ Len(t_tw) = 268
    /\ t_bs # None /\ Len(t_bs) = 268

-----------------------------------------------------------------------------
(* Claims about the dispatcher, checked under DispatchSpec, and about the  *)
(* supervisor, checked under Spec.                                         *)

Active == {"media", "twitter", "bluesky", "cleanup"}

InDispatch(w) == {t \in Threads : th[w][t].pc \in Active}

\* every configured platform's post attempt of the current dispatch is over
LegsOver(w) ==
    /\ accounts[w].twitter => hist[w].tw # "no"
    /\ accounts[w].bluesky => hist[w].bs # "no"

\* C1: an event that breaks any of the acceptance conditions (author is the
\* account, public, not reblogged, no reblog, no reply field, content present
\* and non-empty) is returned from with no media download, no platform post
\* and no file deletion.
C1_RejectedEventNoEffect ==
    \A w \in Workers :
        ~hist[w].eligible =>
            /\ hist[w].dl = 0 /\ files[w] = {}
            /\ hist[w].tw = "no" /\ hist[w].bs = "no"
            /\ hist[w].rm = <<>>
            /\ hist[w].returned /\ InDispatch(w) = {}

\* a rejected event has been handed to a worker that has both platforms
C1_Witness ==
    \E w \in Workers :
        /\ seen[w] > 0 /\ ~hist[w].eligible
        /\ accounts[w].twitter /\ accounts[w].bluesky

\* C2: when the download of any attachment of an accepted post fails, neither
\* Twitter.post nor BlueSky.post is invoked for that post.
C2_NoPostAfterFetchFailure ==
    \A w \in Workers :
        hist[w].dlFailed => (hist[w].tw = "no" /\ hist[w].bs = "no")

\* the middle one of three downloads failed on a worker with both platforms,
\* and on_update has returned
C2_Witness ==
    \E w \in Workers :
        /\ hist[w].dlFailed /\ hist[w].n = 3 /\ hist[w].dl = 2
        /\ hist[w].returned
        /\ accounts[w].twitter /\ accounts[w].bluesky

\* C3: when the download fails at the k-th attachment, cleanup still runs
\* before on_update returns: removal is attempted for every scratch file
\* created before the failure and none of them remains afterwards.
C3_CleanupAfterFetchFailure ==
    \A w \in Workers :
        (hist[w].dlFailed /\ hist[w].returned) =>
            /\ \A f \in 1..hist[w].dl : \E i \in 1..Len(hist[w].rm) : hist[w].rm[i] = f
            /\ files[w] = {}

\* C4: for an accepted post whose download succeeded, removal of each scratch
\* file is attempted exactly once, only after every configured platform's post
\* attempt is over, whether or not the posts failed.
C4_CleanupOnceAfterPosts ==
    \A w \in Workers :
        /\ hist[w].rm # <<>> => LegsOver(w)
        /\ \A i, j \in 1..Len(hist[w].rm) : hist[w].rm[i] = hist[w].rm[j] => i = j
        /\ (seen[w] > 0 /\ hist[w].eligible /\ ~hist[w].dlFailed /\ hist[w].returned)
             => /\ Len(hist[w].rm) = hist[w].n
                /\ \A f \in 1..hist[w].n : hist[w].rm[f] = f

\* three files were removed after both platform posts had failed
C4_Witness ==
    \E w \in Workers :
        /\ hist[w].returned /\ hist[w].n = 3 /\ Len(hist[w].rm) = 3
        /\ hist[w].tw = "fail" /\ hist[w].bs = "fail"

\* C5: with both platforms configured, the BlueSky post is attempted whether
\* the Twitter post succeeded or raised, and no platform's failure leaves
\* on_update.
C5_BlueSkyWhateverTwitter ==
    \A w \in Workers :
        /\ \A t \in Threads : th[w][t].pc # "dead_update"
        /\ (accounts[w].twitter /\ accounts[w].bluesky /\ hist[w].tw # "no")
             => \/ hist[w].bs # "no"
                \/ \E t \in Threads : th[w][t].pc = "bluesky"
        /\ (accounts[w].twitter /\ accounts[w].bluesky /\ seen[w] > 0
              /\ hist[w].eligible /\ ~hist[w].dlFailed /\ hist[w].returned)
             => (hist[w].tw # "no" /\ hist[w].bs # "no")

\* the Twitter post raised, the BlueSky post was made, on_update returned
C5_Witness ==
    \E w \in Workers :
        /\ hist[w].tw = "fail" /\ hist[w].bs = "ok" /\ hist[w].returned
        /\ \A t \in Threads : th[w][t].pc = "idle"

\* C6: a media-fetch failure or a platform post failure never ends the worker
\* thread and never calls the excepthook: on_update returns, the thread is
\* back in the stream reader, and the next accepted event of the same worker
\* goes through the whole pipeline.
C6_FailureKeepsWorker ==
    \A w \in Workers :
        /\ \A t \in Threads : th[w][t].pc # "dead_update"
        /\ (Failed(hist[w]) /\ InDispatch(w) = {}) => hist[w].returned
        /\ (hist[w].prevFail /\ hist[w].eligible /\ ~hist[w].dlFailed
              /\ hist[w].returned)
             => /\ LegsOver(w)
                /\ hist[w].dl = hist[w].n /\ Len(hist[w].rm) = hist[w].n

\* after a dispatch that failed, the same worker took a second post with media
\* through download, both posts and cleanup
C6_Witness ==
    \E w \in Workers :
        /\ seen[w] = 2 /\ hist[w].prevFail
        /\ hist[w].eligible /\ hist[w].returned /\ ~Failed(hist[w])
        /\ hist[w].n >= 1 /\ Len(hist[w].rm) = hist[w].n
        /\ hist[w].tw = "ok" /\ hist[w].bs = "ok"
        /\ ~sigint /\ \A t \in Threads : th[w][t].pc = "idle"

\* C7: within one worker at most one on_update is under way at any time: a
\* dispatch that has not returned belongs to exactly one stream thread, and no
\* other thread of the worker is inside on_update.
C7_OneDispatchAtATime ==
    \A w \in Workers :
        /\ Cardinality(InDispatch(w)) <= 1
        /\ ~hist[w].returned => Cardinality(InDispatch(w)) = 1

\* the second event of a worker is being processed
C7_Witness ==
    \E w \in Workers :
        /\ seen[w] = 2 /\ ~hist[w].returned
        /\ \E t \in Threads : th[w][t].pc = "cleanup"

\* C8: an unhandled exception in a worker thread, raised at any time after the
\* workers were started, ends in close() having been called on every
\* CrossPoster of the list by the time the process ends.
C8_FaultClosesAll ==
    (/\ mpc \in Terminal
     /\ sup.started = Workers
     /\ \E w \in Workers, t \in Threads : th[w][t].pc = "dead_stream")
        => sup.closed = Workers

\* C22: when the removal of a scratch file fails during cleanup, on_update
\* still returns, no thread dies and no SIGINT is sent, the removal of every
\* other file of the post has still been attempted, and those files are
\* gone.
C22_RemoveFailureOnlyLogged ==
    /\ ~sigint
    /\ \A w \in Workers :
          hist[w].rmFail # {} =>
              /\ hist[w].returned
              /\ \A t \in Threads : th[w][t].pc \notin {"dead_update", "dead_stream"}
              /\ \A f \in 1..hist[w].n : \E i \in 1..Len(hist[w].rm) : hist[w].rm[i] = f
              /\ files[w] = hist[w].rmFail

\* the first of three files could not be removed; the other two were
C22_Witness ==
    \E w \in Workers :
        /\ hist[w].rmFail = {1} /\ hist[w].n = 3
        /\ Len(hist[w].rm) = 3 /\ files[w] = {1}
        /\ hist[w].returned
        /\ \A t \in Threads : th[w][t].pc = "idle"

-----------------------------------------------------------------------------
(* text.encode("UTF-8") and the three byte patterns URLS, TAGS, MENTIONS.  *)
(* A code point outside ASCII is written as one token "U+...."; a byte     *)
(* outside ASCII is written as one token "x..".  Positions returned by the *)
(* match operators are Python's: 0-based, end exclusive.                   *)

\* the bytes of one code point
Utf8OneByteEach(ch) == <<ch>>

Utf8(ch) ==
    CASE ch = "U+00E9" -> <<"xC3", "xA9">>
      [] ch = "U+20AC" -> <<"xE2", "x82", "xAC">>
      [] ch = "U+1F600" -> <<"xF0", "x9F", "x98", "x80">>
      [] OTHER -> <<ch>>

RECURSIVE Encode(_)
\* text.encode("UTF-8")
Encode(s) ==
    IF Len(s) = 0 THEN <<>>
    ELSE IF Len(s) = 1 THEN Utf8(s[1])
    ELSE LET h == Len(s) \div 2
         IN  Encode(SubSeq(s, 1, h)) \o Encode(SubSeq(s, h + 1, Len(s)))

\* continuation bytes (10xxxxxx)
Continuation == {"xA9", "x82", "xAC", "x9F", "x98", "x80"}

\* the code point that starts at byte j
CodePoint(bs, j) ==
    CASE bs[j] = "xC3" -> "U+00E9"
      [] bs[j] = "xE2" -> "U+20AC"
      [] bs[j] = "xF0" -> "U+1F600"
      [] OTHER -> bs[j]

NotSkipped(ch) == ch # ""

\* bytes.decode("UTF-8") of a byte string that cuts no code point
Decode(bs) ==
    SelectSeq([j \in 1..Len(bs) |->
                  IF bs[j] \in Continuation THEN "" ELSE CodePoint(bs, j)],
              NotSkipped)

LowerCase == {"a", "b", "c", "d", "e", "f", "g", "h", "i", "j", "k", "l", "m",
              "n", "o", "p", "q", "r", "s", "t", "u", "v", "w", "x", "y", "z"}
UpperCase == {"A", "B", "C", "D", "E", "F", "G", "H", "I", "J", "K", "L", "M",
              "N", "O", "P", "Q", "R", "S", "T", "U", "V", "W", "X", "Y", "Z"}
Digits == {"0", "1", "2", "3", "4", "5", "6", "7", "8", "9"}
AlNum == LowerCase \cup UpperCase \cup Digits

\* \s of a bytes pattern: ASCII whitespace ("x0B" is the vertical tab)
Space == {" ", "\t", "\n", "\r", "\f", "x0B"}
\* \w of a bytes pattern
Word == AlNum \cup {"_"}
\* [a-zA-Z0-9-]
HandleBytes == AlNum \cup {"-"}
\* [-a-zA-Z0-9@:%._\+~#=]
UrlHost == AlNum \cup {"-", "@", ":", "%", ".", "_", "+", "~", "#", "="}
\* [a-zA-Z0-9()]
UrlTld == AlNum \cup {"(", ")"}
\* [-a-zA-Z0-9()@:%_\+.~#?&//=]
UrlPath == AlNum \cup {"-", "(", ")", "@", ":", "%", "_", "+", ".", "~", "#", "?", "&", "/", "="}
\* [-a-zA-Z0-9@%_\+~#//=]
UrlLast == AlNum \cup {"-", "@", "%", "_", "+", "~", "#", "/", "="}

\* the {0,61}, {1,256} and {1,6} of the patterns
HandleMax == 61
UrlHostMax == 256
UrlTldMax == 6

Min(S) == CHOOSE x \in S : \A y \in S : x <= y
Max(S) == CHOOSE x \in S : \A y \in S : x >= y

\* length of the longest run of bytes of class C that starts at 1-based i
Run(b, i, C) ==
    LET stop == {j \in i..Len(b) : b[j] \notin C}
    IN  IF stop = {} THEN Len(b) - i + 1 ELSE Min(stop) - i

NoMatch == [ok |-> FALSE, start1 |-> 0, end1 |-> 0, end |-> 0]

\* MENTIONS matched at 1-based i: "@", up to 61 handle bytes (greedy), then
\* one whitespace byte or the end of the input
MentionAt(b, i) ==
    IF b[i] # "@" THEN NoMatch
    ELSE LET r == Run(b, i + 1, HandleBytes)
         IN  IF r > HandleMax THEN NoMatch
             ELSE IF i + r = Len(b)
                  THEN [ok |-> TRUE, start1 |-> i, end1 |-> i + r, end |-> i + r]
             ELSE IF b[i + r + 1] \in Space
                  THEN [ok |-> TRUE, start1 |-> i, end1 |-> i + r, end |-> i + r + 1]
             ELSE NoMatch

\* TAGS matched at 1-based i: "#", one byte that is neither digit nor
\* whitespace, then every following non-whitespace byte
TagAt(b, i) ==
    IF b[i] # "#" \/ i + 1 > Len(b) THEN NoMatch
    ELSE IF b[i + 1] \in Digits \cup Space THEN NoMatch
    ELSE LET stop == {j \in (i + 2)..Len(b) : b[j] \in Space}
             e == IF stop = {} THEN Len(b) ELSE Min(stop) - 1
         IN  [ok |-> TRUE, start1 |-> i - 1, end1 |-> e, end |-> e]

\* \b between 1-based positions e and e + 1
Boundary(b, e) ==
    (e >= 1 /\ b[e] \in Word) # (e + 1 <= Len(b) /\ b[e + 1] \in Word)

\* host and top-level part matched from 1-based q: <<a, l>> with a host
\* bytes, a dot, l top-level bytes and a word boundary after them
UrlSplits(b, q) ==
    LET ra == Run(b, q, UrlHost)
    IN  {s \in (1..(IF ra < UrlHostMax THEN ra ELSE UrlHostMax)) \X (1..UrlTldMax) :
            /\ q + s[1] + s[2] <= Len(b)
            /\ b[q + s[1]] = "."
            /\ \A j \in (q + s[1] + 1)..(q + s[1] + s[2]) : b[j] \in UrlTld
            /\ Boundary(b, q + s[1] + s[2])}

\* the split the backtracking search reaches first: longest host, then
\* longest top-level part
FirstSplit(S) ==
    LET a == Max({s[1] : s \in S})
    IN  <<a, Max({s[2] : s \in {x \in S : x[1] = a}})>>

\* "http", an optional "s", "://": the 1-based position after them, or 0
SchemeEnd(b, i) ==
    IF MatchAt(b, i, <<"h", "t", "t", "p", "s", ":", "/", "/">>) THEN i + 8
    ELSE IF MatchAt(b, i, <<"h", "t", "t", "p", ":", "/", "/">>) THEN i + 7
    ELSE 0

\* the optional last group after the top-level part that ends at e: the
\* longest run of path bytes that ends in a byte of the final class
UrlTail(b, i, e) ==
    LET last == {j \in (e + 1)..(e + Run(b, e + 1, UrlPath)) : b[j] \in UrlLast}
    IN  IF last = {}
        THEN [ok |-> TRUE, start1 |-> i - 1, end1 |-> e, end |-> e]
        ELSE [ok |-> TRUE, start1 |-> i - 1, end1 |-> Max(last), end |-> Max(last)]

\* the rest of URLS matched with the host starting at 1-based q
UrlFrom(b, i, q) ==
    LET S == UrlSplits(b, q)
    IN  IF S = {} THEN NoMatch
        ELSE UrlTail(b, i, q + FirstSplit(S)[1] + FirstSplit(S)[2])

\* "www." is taken when the rest matches after it
TakesWww(b, p) == MatchAt(b, p, <<"w", "w", "w", ".">>) /\ UrlSplits(b, p + 4) # {}

\* URLS matched at 1-based i
UrlAt(b, i) ==
    IF SchemeEnd(b, i) = 0 THEN NoMatch
    ELSE IF TakesWww(b, SchemeEnd(b, i)) THEN UrlFrom(b, i, SchemeEnd(b, i) + 4)
    ELSE UrlFrom(b, i, SchemeEnd(b, i))

PatternAt(pattern, b, i) ==
    CASE pattern = "MENTIONS" -> MentionAt(b, i)
      [] pattern = "TAGS" -> TagAt(b, i)
      [] pattern = "URLS" -> UrlAt(b, i)

RECURSIVE FindIter(_, _, _)
\* pattern.finditer(b): the leftmost match from 1-based pos, then the
\* matches after its end
FindIter(pattern, b, pos) ==
    LET at == {i \in pos..Len(b) : PatternAt(pattern, b, i).ok}
    IN  IF at = {} THEN <<>>
        ELSE LET m == PatternAt(pattern, b, Min(at))
             IN  <<m>> \o FindIter(pattern, b, m.end + 1)

\* m.group(1)
Group1(b, m) == SubSeq(b, m.start1 + 1, m.end1)

\* lines 220-231
ParseUrls(text) ==
    LET b == Encode(text)
        ms == FindIter("URLS", b, 1)
    IN  [k \in 1..Len(ms) |->
            [start |-> ms[k].start1, end |-> ms[k].end1,
             url |-> Decode(Group1(b, ms[k]))]]

\* the sign kept in the tag
TagNameWhole(v) == v

\* line 243: v[1:]
TagName(v) == Tail(v)

\* lines 233-248
ParseTags(text) ==
    LET b == Encode(text)
        Kept(m) == Len(Decode(Group1(b, m))) > 1
        ms == SelectSeq(FindIter("TAGS", b, 1), Kept)
    IN  [k \in 1..Len(ms) |->
            [start |-> ms[k].start1, end |-> ms[k].end1,
             tag |-> TagName(Decode(Group1(b, ms[k])))]]

\* the start of group 1 taken as it is
MentionStartOfHandle(v) == v

\* lines 253-255: v = m.start(1); if v > 0: v -= 1
MentionStart(v) == IF v > 0 THEN v - 1 ELSE v

\* lines 250-265
ParseMentions(text) ==
    LET b == Encode(text)
        ms == FindIter("MENTIONS", b, 1)
    IN  [k \in 1..Len(ms) |->
            [start |-> MentionStart(ms[k].start1), end |-> ms[k].end1,
             handle |-> Decode(Group1(b, ms[k]))]]

-----------------------------------------------------------------------------
(* BlueSky._find_user, lines 267-300.                                      *)

UpperSeq == <<"A", "B", "C", "D", "E", "F", "G", "H", "I", "J", "K", "L", "M",
              "N", "O", "P", "Q", "R", "S", "T", "U", "V", "W", "X", "Y", "Z">>
LowerSeq == <<"a", "b", "c", "d", "e", "f", "g", "h", "i", "j", "k", "l", "m",
              "n", "o", "p", "q", "r", "s", "t", "u", "v", "w", "x", "y", "z">>

\* str.lower()
Lower(s) ==
    [i \in 1..Len(s) |->
        IF s[i] \in UpperCase
        THEN LowerSeq[CHOOSE j \in 1..26 : UpperSeq[j] = s[i]]
        ELSE s[i]]

\* s.startswith(p)
StartsWith(s, p) == Len(p) <= Len(s) /\ \A i \in 1..Len(p) : s[i] = p[i]

\* the handle compared as it is written
HandleMatchesExactCase(h, name) == StartsWith(h, name)

\* line 293: i["handle"].lower().startswith(name.lower())
HandleMatches(h, name) == StartsWith(Lower(h), Lower(name))

\* lines 269-277: what the exact lookup's answer gives
ExactResult(r) ==
    IF r.status = 200 /\ r.hasDid THEN [found |-> TRUE, did |-> r.did] ELSE NotFound

\* lines 290-294: the loop over the actors of a search answer
SearchLoop(actors, name) ==
    LET hit == {k \in 1..Len(actors) :
                   /\ actors[k].hasDid /\ actors[k].hasHandle
                   /\ HandleMatches(actors[k].handle, name)}
    IN  IF hit = {} THEN NotFound
        ELSE [found |-> TRUE, did |-> actors[Min(hit)].did]

\* lines 285-296: what the search's answer gives
SearchResult(r, name) ==
    IF r.status # 200 THEN NotFound
    ELSE IF ~r.isList \/ Len(r.actors) = 0 THEN NotFound
    ELSE SearchLoop(r.actors, name)

-----------------------------------------------------------------------------
(* The adapters: BlueSky.__init__ / _authenticate / post, Twitter.post,    *)
(* and the two legs of on_update that call them.                           *)

\* answers of com.atproto.server.createSession: a field that is absent is None
SessionAnswers ==
    [error : BOOLEAN, did : {None, "did:me"}, accessJwt : {None, "jwt1", "jwt2"}]

\* answers of com.atproto.repo.createRecord
RecordAnswers == [error : BOOLEAN, cid : {None, "cid1"}]

\* outcomes of _make_blob for one path
BlobOutcomes == {"nofile", "error", "invalid", "ok"}

\* answers of com.atproto.identity.resolveHandle
ExactAnswers ==
    {[status |-> 200, hasDid |-> TRUE, did |-> "did:exact"],
     [status |-> 200, hasDid |-> FALSE, did |-> None],
     [status |-> 400, hasDid |-> FALSE, did |-> None]}

Actor(did, h) == [hasDid |-> did # None, did |-> did, hasHandle |-> TRUE, handle |-> h]

\* actors a search may return; one lacks "did", one lacks "handle"
ActorPool ==
    {Actor("did:2", <<"B", "o", "b", ".", "y">>),
     Actor(None, <<"b", "o", "b", ".", "z">>),
     [hasDid |-> TRUE, did |-> "did:4", hasHandle |-> FALSE, handle |-> <<>>],
     Actor("did:5", <<"a", "l", "i", "c", "e">>)}

MaxActors == 2

\* answers of app.bsky.actor.searchActors
SearchAnswers ==
    {[status |-> 500, isList |-> FALSE, actors |-> <<>>],
     [status |-> 200, isList |-> FALSE, actors |-> <<>>]}
    \cup {[status |-> 200, isList |-> TRUE, actors |-> a] :
            a \in UNION {[1..n -> ActorPool] : n \in 0..MaxActors}}

\* the scratch paths of a post; "" is an empty item of the media list
MediaLists ==
    {NoList,
     [list |-> TRUE, paths |-> <<>>],
     [list |-> TRUE, paths |-> <<"f1", "f2">>],
     [list |-> TRUE, paths |-> <<"f1", "", "f3">>]}

LongFill == 290

\* sanitized texts handed to the legs
PostTexts ==
    {<<"H", "e", "l", "l", "o", " ", "#", "w", "o", "r", "l", "d">>,
     <<"U+00E9", " ", "@", "b", "o", "b", " ", "a", "@", "A", "l">>,
     <<"h", "i", " ", "@", " ", "U+20AC">>,
     <<"U+1F600", "#", "U+00E9", "t", " ", "h", "t", "t", "p", ":", "/", "/",
       "w", "w", "w", ".", "a", ".", "c", "o", "/", "x", "?", "y", "=", "1", ".">>,
     <<"@", "b", "o", "b", "@", "t", "w", "i", "t", "t", "e", "r", ".", "c", "o", "m",
       " ", "#", "1", " ", "#", "#">>,
     Fill(LongFill),
     <<"@", "b", "o", "b", " ">> \o Fill(LongFill) \o <<" ", "#", "t", "a", "g", " ", "@", "a", "l">>}

PostPrefixes == {None, <<"h", "t", "t", "p", ":", "/", "/", "x", ".", "c", "o">>}

\* media_upload(e).media_id and the blob of an uploaded file
MediaId(path) == <<"id", path>>
BlobOf(path) == <<"blob", path>>

\* lines 432-452
Authenticate(j) ==
    IF j.error THEN [raised |-> TRUE, sess |-> NoSession]
    ELSE IF j.accessJwt = None \/ j.did = None THEN [raised |-> TRUE, sess |-> NoSession]
    ELSE [raised |-> FALSE, sess |-> [did |-> j.did, jwt |-> j.accessJwt]]

\* the identifier sent in place of the token
BearerOfDid(sess) == sess.did

\* f"Bearer {self._jwt}" (lines 313, 420)
BearerOf(sess) == sess.jwt

\* an upload the server refuses is passed over
BlobRaisesOnlyNoFile(o) == o = "nofile"

\* _make_blob raises: lines 303-304 and 324-328
BlobRaises(o) == o # "ok"

\* the cid taken whenever the answer carries one
PostResultCidFirst(j) ==
    IF j.cid # None THEN [raised |-> FALSE, cid |-> j.cid]
    ELSE [raised |-> TRUE, cid |-> None]

\* lines 424-430
PostResult(j) ==
    IF j.error THEN [raised |-> TRUE, cid |-> None]
    ELSE IF j.cid = None THEN [raised |-> TRUE, cid |-> None]
    ELSE [raised |-> FALSE, cid |-> j.cid]

\* the text variables while the text pipeline is not exercised
TIdle ==
    /\ t_pc = "none"
    /\ t_in = None
    /\ t_c = None
    /\ t_y = None
    /\ t_tw = None
    /\ t_bs = None

\* one adapter pair before BlueSky(...) of line 165 runs
PInit ==
    /\ a_pc = "new"
    /\ a_sess = NoSession
    /\ a_in = NoInput
    /\ a_loc = NoLocals
    /\ a_fu = NoFindUser
    /\ a_net = [sessions |-> 0, answered |-> NoSession, calls |-> <<>>]
    /\ a_out = NoOutcome
    /\ TIdle
    /\ WIdle

\* lines 214-218 and 432-452
Construct(j) ==
    /\ a_pc = "new"
    /\ LET r == Authenticate(j)
       IN  /\ a_sess' = r.sess
           /\ a_pc' = IF r.raised THEN "failed" ELSE "ready"
           /\ a_net' = [a_net EXCEPT !.sessions = @ + 1, !.answered = r.sess]
    /\ UNCHANGED <<a_in, a_loc, a_fu, a_out, tvars, wvars>>

\* on_update reaches line 526 with c, self.prefix, x["id"] and m; lines 527-534
Begin(c, prefix, id, m) ==
    /\ a_pc = "ready"
    /\ a_in' = [c |-> c, prefix |-> prefix, id |-> id, m |-> m]
    /\ a_loc' = [NoLocals EXCEPT
                   !.text = TwitterSuffix(TwitterTruncate(LocalCopy(c)), prefix, id),
                   !.k = 1]
    /\ a_pc' = "tw_media"
    /\ UNCHANGED <<a_sess, a_fu, a_net, a_out, tvars, wvars>>

\* on_update reaches line 526 with self.twitter None: line 542 follows
BeginSkeetOnly(c, prefix, id, m) ==
    /\ a_pc = "ready"
    /\ a_in' = [c |-> c, prefix |-> prefix, id |-> id, m |-> m]
    /\ a_loc' = [NoLocals EXCEPT
                   !.text = BlueSkySuffix(BlueSkyTruncate(LocalCopy(c)), prefix, id),
                   !.k = 1]
    /\ a_pc' = "bs_media"
    /\ UNCHANGED <<a_sess, a_fu, a_net, a_out, tvars, wvars>>

\* isinstance(media, list) and len(media) > 0, with items left to take
Uploading(pc) ==
    a_pc = pc /\ a_in.m.list /\ a_loc.k <= Len(a_in.m.paths)

\* the BlueSky leg going on from the copy the Twitter leg left in y
SkeetLocalsFromTweetCopy ==
    [NoLocals EXCEPT
       !.text = BlueSkySuffix(BlueSkyTruncate(LocalCopy(a_loc.text)), a_in.prefix, a_in.id),
       !.k = 1]

\* lines 543-550: the text of the BlueSky leg, and post() entered
SkeetLocals ==
    [NoLocals EXCEPT
       !.text = BlueSkySuffix(BlueSkyTruncate(LocalCopy(a_in.c)), a_in.prefix, a_in.id),
       !.k = 1]

\* line 204, one item; an upload that raises ends Twitter.post (lines 537-538)
TwitterUpload(ok) ==
    /\ Uploading("tw_media")
    /\ IF ok
       THEN /\ a_loc' = [a_loc EXCEPT !.ids = Append(@, MediaId(a_in.m.paths[a_loc.k])),
                                      !.k = @ + 1]
            /\ UNCHANGED <<a_pc, a_out>>
       ELSE /\ a_out' = [a_out EXCEPT !.tw = "fail", !.twUploadFailed = TRUE]
            /\ a_loc' = SkeetLocals
            /\ a_pc' = "bs_media"
    /\ UNCHANGED <<a_sess, a_in, a_fu, a_net, tvars, wvars>>

\* line 208 and lines 536-540
CreateTweet(ok) ==
    /\ a_pc = "tw_media" /\ ~Uploading("tw_media")
    /\ a_out' = [a_out EXCEPT
                   !.tw = IF ok THEN "ok" ELSE "fail",
                   !.tweet = [sent |-> TRUE, text |-> a_loc.text,
                              hasIds |-> a_in.m.list /\ Len(a_in.m.paths) > 0,
                              ids |-> a_loc.ids]]
    /\ a_loc' = SkeetLocals
    /\ a_pc' = "bs_media"
    /\ UNCHANGED <<a_sess, a_in, a_fu, a_net, tvars, wvars>>

\* an exception leaves BlueSky.post: lines 553-554
SkeetFailed(out) == [out EXCEPT !.bs = "fail", !.log = "Could not post Skeet"]

Request(op, arg) ==
    [op |-> op, bearer |-> BearerOf(a_sess), repo |-> a_sess.did, arg |-> arg]

\* lines 390-391: an empty item is passed over
SkipEmpty ==
    /\ Uploading("bs_media") /\ a_in.m.paths[a_loc.k] = ""
    /\ a_loc' = [a_loc EXCEPT !.k = @ + 1]
    /\ UNCHANGED <<a_pc, a_sess, a_in, a_fu, a_net, a_out, tvars, wvars>>

\* line 392 and _make_blob, lines 302-329, for one item
MakeBlob(o) ==
    /\ Uploading("bs_media") /\ a_in.m.paths[a_loc.k] # ""
    /\ a_net' = IF o = "nofile" THEN a_net
                ELSE [a_net EXCEPT !.calls = Append(@, Request("uploadBlob", <<a_in.m.paths[a_loc.k]>>))]
    /\ IF BlobRaises(o)
       THEN /\ a_out' = [SkeetFailed(a_out) EXCEPT !.blobFailed = TRUE]
            /\ a_pc' = "posted"
            /\ UNCHANGED a_loc
       ELSE /\ a_loc' = [a_loc EXCEPT
                           !.e = IF o = "ok" THEN Append(@, BlobOf(a_in.m.paths[a_loc.k])) ELSE @,
                           !.k = @ + 1]
            /\ a_out' = [a_out EXCEPT !.blobFailed = @ \/ o # "ok"]
            /\ UNCHANGED a_pc
    /\ UNCHANGED <<a_sess, a_in, a_fu, tvars, wvars>>

Facet(type, start, end, did, uri, tag) ==
    [type |-> type, byteStart |-> start, byteEnd |-> end,
     did |-> did, uri |-> uri, tag |-> tag]

\* lines 352-381: the link and tag facets, in this order
LinkFacets(us) ==
    [k \in 1..Len(us) |-> Facet("link", us[k].start, us[k].end, None, us[k].url, <<>>)]

TagFacets(ts) ==
    [k \in 1..Len(ts) |-> Facet("tag", ts[k].start, ts[k].end, None, <<>>, ts[k].tag)]

\* the locals once the mention loop has taken item k: the loop goes on, or
\* the two other loops run and _prase_facets returns
AfterMention(loc) ==
    IF loc.k < Len(loc.ms)
    THEN [loc EXCEPT !.k = @ + 1]
    ELSE LET us == ParseUrls(loc.text)
             ts == ParseTags(loc.text)
         IN  [loc EXCEPT !.k = 0, !.us = us, !.ts = ts,
                         !.f = loc.f \o LinkFacets(us) \o TagFacets(ts)]

AfterMentionPc(loc) == IF loc.k < Len(loc.ms) THEN "bs_resolve" ELSE "bs_record"

\* line 397 enters _prase_facets; line 333 calls _prase_mentions
ParseFacets ==
    /\ a_pc = "bs_media" /\ ~Uploading("bs_media")
    /\ LET ms == ParseMentions(a_loc.text)
           loc == [a_loc EXCEPT !.ms = ms, !.k = 0]
       IN  /\ a_loc' = AfterMention(loc)
           /\ a_pc' = AfterMentionPc(loc)
    /\ UNCHANGED <<a_sess, a_in, a_fu, a_net, a_out, tvars, wvars>>

MentionFacet(m, did) == Facet("mention", m.start, m.end, did, <<>>, <<>>)

\* lines 268-280; r.status = 0 is a request that raised
ResolveHandle(r) ==
    /\ a_pc = "bs_resolve"
    /\ LET m == a_loc.ms[a_loc.k]
           v == ExactResult(r)
       IN  /\ a_net' = [a_net EXCEPT !.calls = Append(@, Request("resolveHandle", m.handle))]
           /\ a_fu' = [k |-> a_loc.k, name |-> m.handle, exact |-> r, searched |-> FALSE,
                       search |-> NoAnswer, result |-> v, done |-> v.found]
           /\ IF r.status = 0
              THEN /\ a_out' = SkeetFailed(a_out)
                   /\ a_pc' = "posted"
                   /\ UNCHANGED a_loc
              ELSE IF v.found
              THEN /\ a_loc' = AfterMention([a_loc EXCEPT !.f = Append(@, MentionFacet(m, v.did))])
                   /\ a_pc' = AfterMentionPc(a_loc)
                   /\ UNCHANGED a_out
              ELSE /\ a_pc' = "bs_search"
                   /\ UNCHANGED <<a_loc, a_out>>
    /\ UNCHANGED <<a_sess, a_in, tvars, wvars>>

\* lines 281-300 and 334-351; r.status = 0 is a request that raised
SearchActors(r) ==
    /\ a_pc = "bs_search"
    /\ LET m == a_loc.ms[a_loc.k]
           v == SearchResult(r, m.handle)
       IN  /\ a_net' = [a_net EXCEPT !.calls = Append(@, Request("searchActors", m.handle))]
           /\ a_fu' = [a_fu EXCEPT !.searched = TRUE, !.search = r, !.result = v,
                                   !.done = r.status # 0]
           /\ IF r.status = 0
              THEN /\ a_out' = SkeetFailed(a_out)
                   /\ a_pc' = "posted"
                   /\ UNCHANGED a_loc
              ELSE /\ a_loc' = AfterMention(IF v.found
                                            THEN [a_loc EXCEPT !.f = Append(@, MentionFacet(m, v.did))]
                                            ELSE a_loc)
                   /\ a_pc' = AfterMentionPc(a_loc)
                   /\ UNCHANGED a_out
    /\ UNCHANGED <<a_sess, a_in, tvars, wvars>>

\* lines 393-430 and 551-556
CreateRecord(j) ==
    /\ a_pc = "bs_record"
    /\ LET v == PostResult(j)
       IN  a_out' = [a_out EXCEPT
                       !.rec = [sent |-> TRUE, text |-> a_loc.text, facets |-> a_loc.f,
                                hasEmbed |-> Len(a_loc.e) > 0, images |-> a_loc.e],
                       !.answer = j,
                       !.bs = IF v.raised THEN "fail" ELSE "ok",
                       !.cid = v.cid,
                       !.log = IF v.raised THEN "Could not post Skeet" ELSE "Posted Skeet"]
    /\ a_net' = [a_net EXCEPT !.calls = Append(@, Request("createRecord", a_loc.text))]
    /\ a_fu' = NoFindUser
    /\ a_pc' = "posted"
    /\ UNCHANGED <<a_sess, a_in, a_loc, tvars, wvars>>

\* lines 557-568: on_update is left and its locals are gone
Return ==
    /\ a_pc = "posted"
    /\ a_pc' = "ready"
    /\ a_in' = NoInput
    /\ a_loc' = NoLocals
    /\ a_fu' = NoFindUser
    /\ a_net' = [a_net EXCEPT !.calls = <<>>]
    /\ a_out' = NoOutcome
    /\ UNCHANGED <<a_sess, tvars, wvars>>

PNext ==
    \/ \E j \in SessionAnswers : Construct(j)
    \/ \E c \in PostTexts, prefix \in PostPrefixes, m \in MediaLists : Begin(c, prefix, <<"1">>, m)
    \/ \E c \in PostTexts, prefix \in PostPrefixes, m \in MediaLists :
          BeginSkeetOnly(c, prefix, <<"1">>, m)
    \/ \E ok \in BOOLEAN : TwitterUpload(ok)
    \/ \E ok \in BOOLEAN : CreateTweet(ok)
    \/ SkipEmpty
    \/ \E o \in BlobOutcomes : MakeBlob(o)
    \/ ParseFacets
    \/ \E r \in ExactAnswers \cup {NoAnswer} : ResolveHandle(r)
    \/ \E r \in SearchAnswers \cup {NoAnswer} : SearchActors(r)
    \/ \E j \in RecordAnswers : CreateRecord(j)
    \/ Return

PostSpec == PInit /\ [][PNext]_vars

-----------------------------------------------------------------------------
(* Claims about the supervisor, checked under SupervisorSpec.              *)

\* an entry with neither a "twitter" nor a "bluesky" block
NoDestination(entry) == ~entry.twitter /\ ~entry.bluesky

NothingStarted ==
    /\ sup.started = {}
    /\ \A w \in Workers : nthreads[w] = 0 /\ handle[w] = None

\* C15: when the process has left through exit(1) of the loading loop,
\* start() has been called on no CrossPoster, whichever entries had loaded
\* before; and with an entry that has neither destination block in the
\* list, the process never gets past loading: it is loading, has exited
\* with code 1 or was interrupted, and nothing has been started.
C15_LoadFailureStartsNothing ==
    /\ mpc = "exit1" => NothingStarted
    /\ (\E w \in Workers : NoDestination(accounts[w])) =>
          /\ mpc \in {"load", "exit1", "interrupted"}
          /\ NothingStarted

\* the second entry failed to load after the first had loaded
C15_Witness ==
    /\ mpc = "exit1" /\ mi = 2
    /\ ~NoDestination(accounts[1]) /\ NoDestination(accounts[2])
    /\ NothingStarted

-----------------------------------------------------------------------------
(* Claims about the adapters, checked under PostSpec.                      *)

\* the text of the BlueSky leg for the dispatch's inputs
SkeetTextOf(in) == BlueSkySuffix(BlueSkyTruncate(LocalCopy(in.c)), in.prefix, in.id)

\* the bytes a facet's range covers in a text
Covered(text, f) == SubSeq(Encode(text), f.byteStart + 1, f.byteEnd)

\* C12: the record BlueSky.post submits carries the truncated and suffixed
\* text; every facet of the record has 0 <= byteStart < byteEnd <= the UTF-8
\* byte length of that text, and its range covers, in that text, the "@" of
\* the mention, the uri of the link or "#" and the tag.
C12_FacetsOnTransmittedText ==
    a_out.rec.sent =>
        /\ a_out.rec.text = SkeetTextOf(a_in)
        /\ \A k \in 1..Len(a_out.rec.facets) :
              LET f == a_out.rec.facets[k]
              IN  /\ 0 <= f.byteStart
                  /\ f.byteStart < f.byteEnd
                  /\ f.byteEnd <= Len(Encode(a_out.rec.text))
                  /\ f.type = "mention" => Head(Covered(a_out.rec.text, f)) = "@"
                  /\ f.type = "link" => Decode(Covered(a_out.rec.text, f)) = f.uri
                  /\ f.type = "tag" => Decode(Covered(a_out.rec.text, f)) = <<"#">> \o f.tag

\* a text that was cut at the limit went out with a facet
C12_Witness ==
    /\ a_out.rec.sent
    /\ Len(a_in.c) > 300 /\ Len(a_out.rec.text) = 294
    /\ Len(a_out.rec.facets) > 0

\* a finished _find_user call
Looked == a_fu.done

\* what the claim expects of a search answer: the first actor, among those
\* that carry both fields, whose handle starts with the name, case ignored
FirstCandidate(r, name) ==
    IF r.status # 200 \/ ~r.isList THEN NotFound
    ELSE LET ok == {k \in 1..Len(r.actors) :
                      /\ r.actors[k].hasDid /\ r.actors[k].hasHandle
                      /\ StartsWith(Lower(r.actors[k].handle), Lower(name))}
         IN  IF ok = {} THEN NotFound
             ELSE [found |-> TRUE, did |-> r.actors[CHOOSE k \in ok : \A l \in ok : k <= l].did]

\* the mention facets recorded for the mention _find_user was called for
FacetsOfLooked ==
    {k \in 1..Len(a_loc.f) :
        /\ a_loc.f[k].type = "mention"
        /\ a_loc.f[k].byteStart = a_loc.ms[a_fu.k].start}

\* C13: when the exact lookup answers with an identifier, that identifier is
\* the result and no search is issued; otherwise the search is issued and
\* the result is the identifier of the first returned actor whose handle
\* starts with the name, case ignored; without such an actor, or when the
\* search answers with a non-success status, the mention gets no facet and
\* the text stays as it was.
C13_ExactThenFirstCandidate ==
    Looked =>
        /\ a_fu.name = a_loc.ms[a_fu.k].handle
        /\ IF a_fu.exact.status = 200 /\ a_fu.exact.hasDid
           THEN a_fu.result = [found |-> TRUE, did |-> a_fu.exact.did] /\ ~a_fu.searched
           ELSE a_fu.searched /\ a_fu.result = FirstCandidate(a_fu.search, a_fu.name)
        /\ IF a_fu.result.found
           THEN \E k \in FacetsOfLooked : a_loc.f[k].did = a_fu.result.did
           ELSE FacetsOfLooked = {}
        /\ a_loc.text = SkeetTextOf(a_in)

\* a search found the name in the second actor, under another case
C13_Witness ==
    /\ Looked /\ a_fu.searched
    /\ a_fu.name = <<"A", "l">>
    /\ Len(a_fu.search.actors) = 2
    /\ a_fu.result = [found |-> TRUE, did |-> "did:5"]
    /\ a_fu.search.actors[1].did # "did:5"

\* C14: createSession is called exactly once per adapter, in the
\* constructor and before any post; post never calls it; every uploadBlob
\* and createRecord request carries the token, and names the identifier,
\* that this one call answered with.
C14_OneSessionPerAdapter ==
    /\ a_pc \notin {"none", "new"} => a_net.sessions = 1
    /\ a_pc \in {"new", "failed"} => a_net.calls = <<>> /\ ~a_out.rec.sent
    /\ a_pc \notin {"none", "new", "failed"} =>
          /\ a_net.answered.jwt # None /\ a_net.answered.did # None
          /\ a_sess = a_net.answered
    /\ \A k \in 1..Len(a_net.calls) :
          /\ a_net.calls[k].op # "createSession"
          /\ a_net.calls[k].op \in {"uploadBlob", "createRecord"} =>
                /\ a_net.calls[k].bearer = a_net.answered.jwt
                /\ a_net.calls[k].repo = a_net.answered.did

\* a post with two uploads and its record went out on the one session
C14_Witness ==
    /\ a_out.rec.sent /\ a_net.sessions = 1
    /\ Len(a_out.rec.images) = 2
    /\ Cardinality({k \in 1..Len(a_net.calls) : a_net.calls[k].op = "uploadBlob"}) = 2
    /\ a_net.calls[Len(a_net.calls)].op = "createRecord"
    /\ a_net.calls[Len(a_net.calls)].bearer = "jwt2"

\* the 0-based byte position of the "@" a mention entry belongs to, counted
\* back from its end over its handle
AtSign(m) == m.end - Len(m.handle) - 1

\* C16 as stated: the start of a mention entry is the byte position of "@",
\* unless "@" directly follows a non-whitespace byte, in which case it is
\* one less; the end is the position just after the handle; the handle is
\* the text after "@".
C16_StartShiftedWhenGlued ==
    \A k \in 1..Len(a_loc.ms) :
        LET m == a_loc.ms[k]
            b == Encode(a_loc.text)
            p == AtSign(m)
        IN  /\ b[p + 1] = "@"
            /\ m.start = IF p > 0 /\ b[p] \notin Space THEN p - 1 ELSE p
            /\ m.handle = Decode(SubSeq(b, p + 2, m.end))

\* C16 amended: the start of a mention entry is always the byte position of
\* "@", whatever precedes it; the end is the position just after the handle,
\* where whitespace or the end of the text follows; the handle is the text
\* between the two, made of letters, digits and "-".
C16_StartAtSign ==
    \A k \in 1..Len(a_loc.ms) :
        LET m == a_loc.ms[k]
            b == Encode(a_loc.text)
        IN  /\ b[m.start + 1] = "@"
            /\ m.start + 1 <= m.end /\ m.end <= Len(b)
            /\ m.handle = Decode(SubSeq(b, m.start + 2, m.end))
            /\ \A j \in (m.start + 2)..m.end : b[j] \in HandleBytes
            /\ m.end = Len(b) \/ b[m.end + 1] \in Space

\* a mention whose "@" directly follows a letter was parsed
C16_Witness ==
    \E k \in 1..Len(a_loc.ms) :
        LET m == a_loc.ms[k]
        IN  /\ m.start > 0
            /\ Encode(a_loc.text)[m.start] \in AlNum
            /\ Len(m.handle) > 0

\* the number of bytes UTF-8 takes for a code point
ByteWidth(ch) ==
    CASE ch = "U+00E9" -> 2
      [] ch = "U+20AC" -> 3
      [] ch = "U+1F600" -> 4
      [] OTHER -> 1

RECURSIVE WidthSum(_, _, _)
\* the bytes of the code points i..j of a text
WidthSum(text, i, j) ==
    IF i > j THEN 0
    ELSE IF i = j THEN ByteWidth(text[i])
    ELSE LET h == (i + j) \div 2
         IN  WidthSum(text, i, h) + WidthSum(text, h + 1, j)

\* the 1-based code point positions of the "@" signs that start a mention:
\* followed by at most 61 handle characters, then whitespace or the end
AtChars(text) ==
    {i \in 1..Len(text) :
        /\ text[i] = "@"
        /\ LET r == Run(text, i + 1, HandleBytes)
           IN  /\ r <= 61
               /\ i + r = Len(text) \/ text[i + r + 1] \in Space}

Kth(S, k) == CHOOSE x \in S : Cardinality({y \in S : y < x}) = k - 1

\* C17: the start of every mention entry is the sum of the UTF-8 byte widths
\* of the code points before its "@"; when one of them takes more than one
\* byte the start is strictly greater than the code point index of the "@".
C17_ByteOffsets ==
    /\ a_pc \in {"bs_resolve", "bs_search", "bs_record"}
          => Len(a_loc.ms) = Cardinality(AtChars(a_loc.text))
    /\ \A k \in 1..Len(a_loc.ms) :
          LET i == Kth(AtChars(a_loc.text), k)
          IN  /\ a_loc.ms[k].start = WidthSum(a_loc.text, 1, i - 1)
              /\ (\E j \in 1..(i - 1) : ByteWidth(a_loc.text[j]) > 1)
                    => a_loc.ms[k].start > i - 1

\* a mention after a two-byte code point was parsed: its "@" is the third
\* code point and the fourth byte
C17_Witness ==
    /\ Len(a_loc.ms) > 0
    /\ a_loc.text[1] = "U+00E9" /\ a_loc.text[3] = "@"
    /\ a_loc.ms[1].start = 3

\* _prase_facets has run its three loops
FacetsDone == a_pc = "bs_record" \/ a_out.rec.sent

HelloWorld == <<"H", "e", "l", "l", "o", " ", "#", "w", "o", "r", "l", "d">>

\* C18: every tag entry starts at a "#" that is followed by a byte that is
\* neither digit nor whitespace, ends after the last byte of the
\* non-whitespace run, and its tag is the covered text without the "#",
\* never empty; "Hello #world" gives exactly one tag facet, "world" at 6..12.
C18_TagEntries ==
    /\ \A k \in 1..Len(a_loc.ts) :
          LET t == a_loc.ts[k]
              b == Encode(a_loc.text)
          IN  /\ b[t.start + 1] = "#"
              /\ b[t.start + 2] \notin Digits \cup Space
              /\ \A j \in (t.start + 1)..t.end : b[j] \notin Space
              /\ t.end = Len(b) \/ b[t.end + 1] \in Space
              /\ Len(t.tag) > 0
              /\ <<"#">> \o t.tag = Decode(SubSeq(b, t.start + 1, t.end))
    /\ (FacetsDone /\ a_loc.text = HelloWorld) =>
          /\ Len(a_loc.ts) = 1
          /\ a_loc.ts[1] = [start |-> 6, end |-> 12, tag |-> <<"w", "o", "r", "l", "d">>]
          /\ Cardinality({k \in 1..Len(a_loc.f) : a_loc.f[k].type = "tag"}) = 1
          /\ \E k \in 1..Len(a_loc.f) :
                /\ a_loc.f[k].type = "tag" /\ a_loc.f[k].tag = <<"w", "o", "r", "l", "d">>
                /\ a_loc.f[k].byteStart = 6 /\ a_loc.f[k].byteEnd = 12

\* the facets of "Hello #world" were computed
C18_Witness ==
    /\ FacetsDone /\ a_loc.text = HelloWorld /\ Len(a_loc.f) = 1

\* C19: BlueSky.post returns the cid exactly when the answer to createRecord
\* has no error field and has a cid; an answer with an error field, with or
\* without cid, and an answer without cid make the post fail, and the
\* dispatcher then logs the failure and no identifier.
C19_CidOnlyWithoutError ==
    a_out.rec.sent =>
        /\ a_out.bs = "ok" <=> (~a_out.answer.error /\ a_out.answer.cid # None)
        /\ a_out.bs = "ok" => a_out.cid = a_out.answer.cid /\ a_out.log = "Posted Skeet"
        /\ a_out.bs # "ok" =>
              /\ a_out.bs = "fail" /\ a_out.cid = None
              /\ a_out.log = "Could not post Skeet"

\* an answer with both an error and a cid made the post fail
C19_Witness ==
    /\ a_out.rec.sent
    /\ a_out.answer.error /\ a_out.answer.cid = "cid1"
    /\ a_out.bs = "fail" /\ a_out.log = "Could not post Skeet"

IsPath(p) == p # ""

\* the non-empty items of the media list, in order
GivenPaths(m) == IF m.list THEN SelectSeq(m.paths, IsPath) ELSE <<>>

\* C20: no create_tweet call after a failed media upload and no createRecord
\* call after a failed blob; a tweet carries the ids of all media items in
\* order; a record carries the blobs of all non-empty media items in order,
\* and its embed is there exactly when there is at least one of them.
C20_NoPartialMedia ==
    /\ a_out.twUploadFailed => ~a_out.tweet.sent
    /\ a_out.tweet.sent =>
          /\ a_out.tweet.hasIds <=> (a_in.m.list /\ Len(a_in.m.paths) > 0)
          /\ Len(a_out.tweet.ids) = Len(a_in.m.paths)
          /\ \A k \in 1..Len(a_in.m.paths) : a_out.tweet.ids[k] = MediaId(a_in.m.paths[k])
    /\ a_out.blobFailed => ~a_out.rec.sent
    /\ a_out.rec.sent =>
          /\ Len(a_out.rec.images) = Len(GivenPaths(a_in.m))
          /\ \A k \in 1..Len(GivenPaths(a_in.m)) :
                a_out.rec.images[k] = BlobOf(GivenPaths(a_in.m)[k])
          /\ a_out.rec.hasEmbed <=> Len(GivenPaths(a_in.m)) > 0

\* a list with an empty item in the middle went out on both platforms
C20_Witness ==
    /\ a_out.tweet.sent /\ a_out.rec.sent
    /\ a_in.m.paths = <<"f1", "", "f3">>
    /\ Len(a_out.tweet.ids) = 3
    /\ a_out.rec.images = <<BlobOf("f1"), BlobOf("f3")>>
    /\ a_out.rec.hasEmbed

\* the BlueSky leg of the dispatch is running or has run
InSkeetLeg == a_pc \in {"bs_media", "bs_resolve", "bs_search", "bs_record"} \/ a_out.rec.sent

\* C21: the text of the BlueSky leg is a function of the sanitized text, the
\* prefix and the post id alone: it is the same with Twitter not configured,
\* with the tweet posted, refused or its upload failed, and after Twitter
\* cut its own copy; a text of 281 to 300 characters reaches BlueSky whole.
C21_SkeetTextIndependent ==
    /\ InSkeetLeg => a_loc.text = SkeetTextOf(a_in)
    /\ a_out.rec.sent => a_out.rec.text = SkeetTextOf(a_in)
    /\ (InSkeetLeg /\ Len(WithoutArtifact(a_in.c)) \in 281..300) =>
          /\ Slice(a_loc.text, Len(WithoutArtifact(a_in.c))) = WithoutArtifact(a_in.c)
          /\ a_out.tweet.sent => Len(a_out.tweet.text) = 280

\* Twitter cut its copy to 280 characters and refused the tweet; BlueSky
\* was sent all 290 characters
C21_Witness ==
    /\ a_out.tweet.sent /\ a_out.tw = "fail" /\ Len(a_out.tweet.text) = 280
    /\ a_out.rec.sent /\ Len(a_in.c) = 290 /\ a_out.rec.text = a_in.c

====
